---- MODULE Spec2Model ----
(***************************************************************************)
(* Order checkout and balance ledger of the campus marketplace.            *)
(*                                                                         *)
(* Tables are partial functions keyed by their primary key (a missing key  *)
(* is a missing row); balance_tx is a bag of rows.  Every web request is a *)
(* process; each database round trip of a request is one step, so that     *)
(* requests interleave exactly where the code lets them.  A transaction    *)
(* opened with engine.begin() becomes visible at its commit step; the row  *)
(* locks it takes (SELECT ... FOR UPDATE, UPDATE) are held until then.     *)
(***************************************************************************)
EXTENDS Integers, Sequences, FiniteSets, Bags, TLC

(***************************************************************************)
(* Bounds of the model.                                                    *)
(***************************************************************************)
NumProcs == 2
MaxRequests == 2

Users == {1, 2, 3}
Products == {1, 2}
Procs == 1..NumProcs

\* amount_cents of a top-up and of a withdrawal (positive integers)
TopUpAmounts == {100}
WithdrawAmounts == {300}
\* delta_cents of a direct adjust_balance call
Deltas == {-200, 0, 100}

VARIABLES
    account_balance,    \* user_id -> balance_cents            (table account_balance)
    balance_tx,         \* bag of [user_id, amount_cents, note] (table balance_tx)
    Inventory,          \* <<user_id, product_id>> -> quantity  (table Inventory)
    CartItem,           \* user_id -> sequence of [product_id, quantity], by ci.id
    ProductsTbl,        \* product_id -> [has_price, price, available]
    orders,             \* id -> [buyer_id, total_cents, fulfilled]
    order_items,        \* id -> [order_id, product_id, seller_id, quantity,
                        \*        unit_price_cents, fulfilled_at]
    orders_id_seq,      \* last value of the orders id sequence
    order_items_id_seq, \* last value of the order_items id sequence
    balLock,            \* user_id -> process holding the account_balance row lock (0: none)
    proc,               \* process -> the request it runs (locals and position)
    nreq,               \* requests started so far
    net,                \* history: user_id -> sum of the amounts of the balance
                        \* operations that succeeded for the user
    UsersTbl,           \* set of the ids of the Users rows          (table Users)
    Cart                \* set of the user_ids that have a Cart row  (table Cart)

dbVars == <<account_balance, balance_tx, Inventory, CartItem, ProductsTbl,
            orders, order_items, UsersTbl, Cart>>
vars == <<account_balance, balance_tx, Inventory, CartItem, ProductsTbl,
          orders, order_items, orders_id_seq, order_items_id_seq,
          balLock, proc, nreq, net, UsersTbl, Cart>>

(***************************************************************************)
(* Helpers.                                                                *)
(***************************************************************************)
RECURSIVE SumRows(_, _)
\* sum of amount_cents over the rows of the bag b listed in the set S
SumRows(S, b) ==
    IF S = {} THEN 0
    ELSE LET r == CHOOSE x \in S : TRUE
         IN  r.amount_cents * CopiesIn(r, b) + SumRows(S \ {r}, b)

\* SELECT SUM(amount_cents) FROM balance_tx WHERE user_id = u
LedgerSum(u) ==
    SumRows({r \in BagToSet(balance_tx) : r.user_id = u}, balance_tx)

\* mutant of TxRow: the row records the size of the amount, without its sign
TxRowUnsigned(u, amount, note) ==
    [user_id |-> u, amount_cents |-> IF amount < 0 THEN 0 - amount ELSE amount,
     note |-> note]

\* INSERT INTO balance_tx (user_id, amount_cents, note)
TxRow(u, amount, note) == [user_id |-> u, amount_cents |-> amount, note |-> note]

\* User.get_balance: the row's balance_cents, 0 when the user has no row
get_balance(u) == IF u \in DOMAIN account_balance THEN account_balance[u] ELSE 0

\* the table with row k set to v (inserted when missing)
Upsert(tbl, k, v) == [x \in DOMAIN tbl \cup {k} |-> IF x = k THEN v ELSE tbl[x]]

(***************************************************************************)
(* unit_price_cents = int(float(price) * 100)        (cart.py line 167)    *)
(*                                                                         *)
(* price is a DECIMAL with two places, here the integer p of hundredths.   *)
(* float(price) is the double x nearest to p/100: x = m / 2^k with         *)
(* 2^52 <= m < 2^53, k = 52 - floor(log2(p/100)), and p * 2^k = 100*m + r  *)
(* with -50 < r < 50.  x * 100 is the double nearest to p - r / 2^k.  The  *)
(* doubles around p are 2^(floor(log2 p) - 52) apart, so the product is    *)
(* below p exactly when floor(log2 p) - floor(log2(p/100)) = 6 and r > 32  *)
(* (r = 32 is a tie and rounds to the even mantissa, p), and int() then    *)
(* truncates it to p - 1.  Only r mod 100 is needed, so the computation    *)
(* stays within small integers.                                            *)
(***************************************************************************)
RECURSIVE Pow2(_)
Pow2(n) == IF n = 0 THEN 1 ELSE 2 * Pow2(n - 1)

RECURSIVE Pow2Mod100(_)
Pow2Mod100(n) == IF n = 0 THEN 1 ELSE (2 * Pow2Mod100(n - 1)) % 100

RECURSIVE FloorLog2Up(_, _, _)
\* the largest e >= from with d * 2^e <= p      (p >= d * 2^from)
FloorLog2Up(p, d, from) ==
    IF d * Pow2(from + 1) <= p THEN FloorLog2Up(p, d, from + 1) ELSE from

RECURSIVE FloorLog2Down(_, _, _)
\* the least n >= from with p * 2^n >= d : floor(log2(p/d)) = -n   (0 < p < d)
FloorLog2Down(p, d, from) ==
    IF p * Pow2(from) >= d THEN from ELSE FloorLog2Down(p, d, from + 1)

\* floor(log2(p / d)) for integers p > 0, d > 0
FloorLog2(p, d) ==
    IF p >= d THEN FloorLog2Up(p, d, 0) ELSE 0 - FloorLog2Down(p, d, 1)

\* int(float(price) * 100) for price = p / 100
UnitPriceCents(p) ==
    IF p = 0 THEN 0
    ELSE LET ex == FloorLog2(p, 100)
             ep == FloorLog2(p, 1)
             r  == (p * Pow2Mod100(52 - ex)) % 100
         IN  IF ep - ex = 6 /\ r > 32 /\ r < 50 THEN p - 1 ELSE p

(***************************************************************************)
(* Requests.  A process is idle, runs a request, or holds the result of    *)
(* the request it finished ("done").                                       *)
(***************************************************************************)
NoNote == <<"", 0>>

IdleProc ==
    [op |-> "idle", pc |-> "idle", user |-> 0,
     cart_items |-> <<>>, i |-> 0, items_to_order |-> <<>>, total_cents |-> 0,
     buyer_balance |-> 0, order_id |-> 0, first_item_id |-> 0,
     seller_totals |-> <<>>, j |-> 0,
     ab_user |-> 0, ab_delta |-> 0, ab_note |-> NoNote, ab_current |-> 0,
     result |-> "", new_balance |-> 0,
     debited |-> 0, credited |-> 0,
     req |-> 0, product_id |-> 0]

Free(p) == proc[p].pc \in {"idle", "done"}

\* the worker that takes the next request: the processes are interchangeable,
\* so it is the first free one
Takes(p) == Free(p) /\ \A q \in Procs : q < p => ~Free(q)

\* mutant of RowLockFree: the read does not take the row lock (no FOR UPDATE)
RowLockIgnored(u) == TRUE

\* the account_balance row of user u is not locked by another transaction
RowLockFree(u) == balLock[u] = 0

\* the request ends with result res: what it returns and has done is kept,
\* its other locals are dropped
Finish(rec, res) ==
    [IdleProc EXCEPT !.op = rec.op, !.pc = "done", !.user = rec.user,
                     !.result = res, !.order_id = rec.order_id,
                     !.first_item_id = rec.first_item_id,
                     !.items_to_order = rec.items_to_order,
                     !.total_cents = rec.total_cents,
                     !.ab_user = rec.ab_user, !.ab_delta = rec.ab_delta,
                     !.debited = rec.debited, !.credited = rec.credited]

(***************************************************************************)
(* Initial states: a marketplace after some registrations, top-ups, stock  *)
(* additions and cart additions.  A balance that is not 0 has its ledger   *)
(* row; carts hold each product at most once with a positive quantity.    *)
(***************************************************************************)
Line(pid, qty) == [product_id |-> pid, quantity |-> qty]

\* user 3 has an empty cart
InitCarts1 == { <<Line(1, 2)>>, <<Line(1, 1), Line(2, 1)>> }
InitCarts2 == { <<Line(1, 1)>> }

\* user 3 sells product 1: two units, or one unit while user 1 holds two units
\* of it herself; product 2 is held by user 2 or by user 3
InitInventories ==
    { [k \in ({<<3, 1>>, <<h, 2>>} \cup own) |->
         IF k = <<3, 1>> THEN (IF own = {} THEN 2 ELSE 1)
         ELSE IF k = <<1, 1>> THEN 2 ELSE 1] :
      h \in {2, 3}, own \in {{}, {<<1, 1>>}} }

\* users 1 and 2 have topped up; user 3 has no account_balance row yet
InitBalances == { [u \in {1, 2} |-> 200] }

\* product 1 costs 1.00; product 2 costs 0.29 or has no price
InitCatalogs ==
    { [p \in Products |->
         IF p = 1 THEN [has_price |-> TRUE, price |-> 100, available |-> TRUE]
         ELSE [has_price |-> hp, price |-> IF hp THEN 29 ELSE 0, available |-> TRUE]] :
      hp \in BOOLEAN }

Init ==
    /\ account_balance \in InitBalances
    /\ balance_tx = SetToBag({ TxRow(u, account_balance[u], <<"top up", 0>>) :
                               u \in {x \in DOMAIN account_balance : account_balance[x] # 0} })
    /\ Inventory \in InitInventories
    /\ \E c1 \in InitCarts1, c2 \in InitCarts2 :
          CartItem = [u \in Users |-> IF u = 1 THEN c1 ELSE IF u = 2 THEN c2 ELSE <<>>]
    /\ ProductsTbl \in InitCatalogs
    /\ orders = <<>>
    /\ order_items = <<>>
    /\ orders_id_seq = 0
    /\ order_items_id_seq = 0
    /\ balLock = [u \in Users |-> 0]
    /\ proc = [p \in Procs |-> IdleProc]
    /\ nreq = 0
    /\ net = [u \in Users |-> get_balance(u)]
    /\ UsersTbl = Users
    /\ Cart = {u \in Users : CartItem[u] # <<>>}

(***************************************************************************)
(* User.adjust_balance(user_id, delta_cents, note)                         *)
(*                                                                         *)
(* Its own transaction (engine.begin): INSERT .. ON CONFLICT DO NOTHING,   *)
(* SELECT .. FOR UPDATE, then UPDATE and INSERT INTO balance_tx, or raise  *)
(* ValueError.  AB_Lock is the locking read, AB_Write the rest up to the   *)
(* commit or the rollback.  The caller is a balance page request           *)
(* (op "adjust") or a checkout (op "checkout").                            *)
(***************************************************************************)
\* mutant of ZeroDelta: the shortcut for an amount of 0 is missing
ZeroDeltaNever(delta_cents) == FALSE

\* if delta_cents == 0: return User.get_balance(user_id)
ZeroDelta(delta_cents) == delta_cents = 0

RECURSIVE NextNonZero(_, _)
\* the first index >= j of seller_totals whose earnings are not 0 (a call with
\* delta_cents = 0 returns at once), Len + 1 when there is none
NextNonZero(st, j) ==
    IF j > Len(st) THEN j
    ELSE IF ~ZeroDelta(st[j].earnings_cents) THEN j ELSE NextNonZero(st, j + 1)

OrderNote(order_id) == <<"Order", order_id>>
SaleNote(order_id) == <<"Order sale", order_id>>

\* checkout: the call of adjust_balance for the next seller of seller_totals,
\* or the cart delete when every seller is paid
NextCredit(rec) ==
    LET n == NextNonZero(rec.seller_totals, rec.j)
    IN  IF n > Len(rec.seller_totals)
        THEN [rec EXCEPT !.pc = "clear_cart", !.j = n]
        ELSE [rec EXCEPT !.pc = "ab_lock", !.j = n + 1,
                         !.ab_user = rec.seller_totals[n].seller_id,
                         !.ab_delta = rec.seller_totals[n].earnings_cents,
                         !.ab_note = SaleNote(rec.order_id)]

\* a balance page request calls adjust_balance(u, delta, note)
StartAdjust(p, u, delta) ==
    /\ Takes(p)
    /\ nreq < MaxRequests
    /\ nreq' = nreq + 1
    /\ proc' = [proc EXCEPT ![p] =
          IF ZeroDelta(delta)
          THEN [IdleProc EXCEPT !.op = "adjust", !.pc = "done", !.user = u,
                                !.ab_user = u, !.result = "ok",
                                !.new_balance = get_balance(u)]
          ELSE [IdleProc EXCEPT !.op = "adjust", !.pc = "ab_lock", !.user = u,
                                !.ab_user = u, !.ab_delta = delta,
                                !.ab_note = <<IF delta > 0 THEN "Top up" ELSE "Withdraw", 0>>]]
    /\ UNCHANGED <<dbVars, orders_id_seq, order_items_id_seq, balLock, net>>

\* SELECT balance_cents FROM account_balance WHERE user_id = :user_id FOR UPDATE
AB_Lock(p) ==
    LET rec == proc[p]
    IN  /\ rec.pc = "ab_lock"
        /\ RowLockFree(rec.ab_user)
        /\ balLock' = [balLock EXCEPT ![rec.ab_user] = p]
        /\ proc' = [proc EXCEPT ![p] =
              [rec EXCEPT !.pc = "ab_write", !.ab_current = get_balance(rec.ab_user)]]
        /\ UNCHANGED <<dbVars, orders_id_seq, order_items_id_seq, nreq, net>>

\* new_balance = current_balance + delta_cents
NewBalance(current_balance, delta_cents) == current_balance + delta_cents

\* mutant of InsufficientFunds: the check is missing
InsufficientFundsUnchecked(new_balance) == FALSE

\* if new_balance < 0: raise ValueError('Insufficient funds')
InsufficientFunds(new_balance) == new_balance < 0

AB_Write(p) ==
    LET rec == proc[p]
        u   == rec.ab_user
        new_balance == NewBalance(rec.ab_current, rec.ab_delta)
    IN  /\ rec.pc = "ab_write"
        /\ balLock' = [balLock EXCEPT ![u] = 0]
        /\ IF InsufficientFunds(new_balance)
           THEN \* the transaction rolls back; a checkout catches the exception
                /\ proc' = [proc EXCEPT ![p] =
                      Finish(rec, IF rec.op = "adjust" THEN "insufficient_funds"
                                  ELSE "error")]
                /\ UNCHANGED <<dbVars, net>>
           ELSE /\ account_balance' = Upsert(account_balance, u, new_balance)
                /\ balance_tx' = balance_tx (+) SetToBag({TxRow(u, rec.ab_delta, rec.ab_note)})
                /\ net' = [net EXCEPT ![u] = @ + rec.ab_delta]
                /\ proc' = [proc EXCEPT ![p] =
                      IF rec.op = "adjust"
                      THEN [Finish(rec, "ok") EXCEPT !.new_balance = new_balance]
                      ELSE IF u = rec.user
                      THEN NextCredit([rec EXCEPT
                              !.debited = @ + (get_balance(u) - new_balance), !.j = 1])
                      ELSE NextCredit([rec EXCEPT
                              !.credited = @ + (new_balance - get_balance(u))])]
                /\ UNCHANGED <<Inventory, CartItem, ProductsTbl, orders, order_items,
                               UsersTbl, Cart>>
        /\ UNCHANGED <<orders_id_seq, order_items_id_seq, nreq>>

(***************************************************************************)
(* Registration.  The page handler register (account.py) calls User.create,*)
(* whose INSERT INTO Users commits on its own, and then opens a second     *)
(* transaction for the account_balance row: User_create and register are   *)
(* its two commits, and a request that is interrupted or whose second      *)
(* transaction fails stops between them.  api_register (users/routes.py)   *)
(* does both inserts in one transaction.  INSERT .. VALUES (:user_id, 0)   *)
(* ON CONFLICT DO NOTHING adds the row when the user has none.  The id of  *)
(* the new Users row is any id not yet in the table.                       *)
(***************************************************************************)
User_create(u) ==
    /\ u \notin UsersTbl
    /\ UsersTbl' = UsersTbl \cup {u}
    /\ UNCHANGED <<account_balance, balance_tx, Inventory, CartItem, ProductsTbl,
                   orders, order_items, orders_id_seq, order_items_id_seq,
                   balLock, proc, nreq, net, Cart>>

api_register(u) ==
    /\ nreq < MaxRequests
    /\ nreq' = nreq + 1
    /\ u \notin UsersTbl
    /\ UsersTbl' = UsersTbl \cup {u}
    /\ account_balance' =
          IF u \in DOMAIN account_balance THEN account_balance
          ELSE Upsert(account_balance, u, 0)
    /\ UNCHANGED <<balance_tx, Inventory, CartItem, ProductsTbl, orders, order_items,
                   orders_id_seq, order_items_id_seq, balLock, proc, net, Cart>>

register(u) ==
    /\ nreq < MaxRequests
    /\ nreq' = nreq + 1
    /\ u \in UsersTbl
    /\ u \notin DOMAIN account_balance
    /\ account_balance' = Upsert(account_balance, u, 0)
    /\ UNCHANGED <<balance_tx, Inventory, CartItem, ProductsTbl, orders, order_items,
                   orders_id_seq, order_items_id_seq, balLock, proc, net,
                   UsersTbl, Cart>>

(***************************************************************************)
(* api_top_up and api_withdraw: one transaction each.  The UPDATE of the   *)
(* top-up and the SELECT .. FOR UPDATE of the withdrawal wait for the row  *)
(* lock; nothing else happens between their statements, so each is one     *)
(* step taken when the row is free.                                        *)
(***************************************************************************)
api_top_up(u, amount) ==
    /\ nreq < MaxRequests
    /\ nreq' = nreq + 1
    /\ RowLockFree(u)
    /\ account_balance' = Upsert(account_balance, u, get_balance(u) + amount)
    /\ balance_tx' = balance_tx (+) SetToBag({TxRow(u, amount, <<"top up", 0>>)})
    /\ net' = [net EXCEPT ![u] = @ + amount]
    /\ UNCHANGED <<Inventory, CartItem, ProductsTbl, orders, order_items,
                   orders_id_seq, order_items_id_seq, balLock, proc, UsersTbl, Cart>>

\* mutant of WithdrawRefused: the check is missing
WithdrawNeverRefused(amount, current_balance) == FALSE

\* if amount > current_balance: return 'insufficient balance', 400
WithdrawRefused(amount, current_balance) == amount > current_balance

api_withdraw(u, amount) ==
    /\ nreq < MaxRequests
    /\ nreq' = nreq + 1
    /\ RowLockFree(u)
    /\ IF WithdrawRefused(amount, get_balance(u))
       THEN UNCHANGED <<account_balance, balance_tx, net>>
       ELSE \* UPDATE .. WHERE user_id = :user_id changes the row when there is one
            /\ account_balance' =
                  IF u \in DOMAIN account_balance
                  THEN [account_balance EXCEPT ![u] = @ - amount]
                  ELSE account_balance
            /\ balance_tx' = balance_tx (+) SetToBag({TxRow(u, 0 - amount, <<"withdraw", 0>>)})
            /\ net' = [net EXCEPT ![u] = @ - amount]
    /\ UNCHANGED <<Inventory, CartItem, ProductsTbl, orders, order_items,
                   orders_id_seq, order_items_id_seq, balLock, proc, UsersTbl, Cart>>

(***************************************************************************)
(* submit_order(user_id)                                     (cart.py)     *)
(***************************************************************************)
StartCheckout(p, u) ==
    /\ Takes(p)
    /\ nreq < MaxRequests
    /\ nreq' = nreq + 1
    /\ proc' = [proc EXCEPT ![p] =
          [IdleProc EXCEPT !.op = "checkout", !.pc = "read_cart", !.user = u]]
    /\ UNCHANGED <<dbVars, orders_id_seq, order_items_id_seq, balLock, net>>

\* SELECT ci.product_id, ci.quantity, p.price, p.name FROM CartItem ci
\* JOIN Cart c .. JOIN Products p .. WHERE c.user_id = :uid ORDER BY ci.id
CartRows(u) ==
    [k \in 1..Len(CartItem[u]) |->
        [product_id |-> CartItem[u][k].product_id,
         quantity   |-> CartItem[u][k].quantity,
         has_price  |-> ProductsTbl[CartItem[u][k].product_id].has_price,
         price      |-> ProductsTbl[CartItem[u][k].product_id].price]]

\* mutant of CO_ReadCart: the cart is emptied when it is read, before the
\* validation
CO_ReadCartAndClear(p) ==
    LET rec == proc[p]
        cart_items == CartRows(rec.user)
    IN  /\ rec.op = "checkout" /\ rec.pc = "read_cart"
        /\ proc' = [proc EXCEPT ![p] =
              IF cart_items = <<>>
              THEN Finish(rec, "Cart is empty")
              ELSE [rec EXCEPT !.pc = "select_seller", !.cart_items = cart_items, !.i = 1]]
        /\ CartItem' = [CartItem EXCEPT ![rec.user] = <<>>]
        /\ UNCHANGED <<account_balance, balance_tx, Inventory, ProductsTbl, orders,
                       order_items, orders_id_seq, order_items_id_seq, balLock, nreq, net,
                       UsersTbl, Cart>>

CO_ReadCart(p) ==
    LET rec == proc[p]
        cart_items == CartRows(rec.user)
    IN  /\ rec.op = "checkout" /\ rec.pc = "read_cart"
        /\ proc' = [proc EXCEPT ![p] =
              IF cart_items = <<>>
              THEN Finish(rec, "Cart is empty")
              ELSE [rec EXCEPT !.pc = "select_seller", !.cart_items = cart_items, !.i = 1]]
        /\ UNCHANGED <<dbVars, orders_id_seq, order_items_id_seq, balLock, nreq, net>>

\* mutant of Eligible: the query does not exclude the buyer
EligibleWithBuyer(s, pid, qty, buyer_id) ==
    /\ <<s, pid>> \in DOMAIN Inventory
    /\ Inventory[<<s, pid>>] >= qty

\* WHERE product_id = :pid AND quantity >= :qty AND user_id != :buyer_id
Eligible(s, pid, qty, buyer_id) ==
    /\ <<s, pid>> \in DOMAIN Inventory
    /\ Inventory[<<s, pid>>] >= qty
    /\ s # buyer_id

\* mutant of SellerRows: ORDER BY quantity DESC is missing, LIMIT 1 returns any
\* eligible seller
SellerRowsUnordered(pid, qty, buyer_id) ==
    { s \in Users : Eligible(s, pid, qty, buyer_id) }

\* SELECT user_id, quantity FROM Inventory WHERE .. ORDER BY quantity DESC LIMIT 1:
\* the sellers the query may return (one of those with the largest quantity)
SellerRows(pid, qty, buyer_id) ==
    { s \in Users :
        /\ Eligible(s, pid, qty, buyer_id)
        /\ \A t \in Users : Eligible(t, pid, qty, buyer_id)
                            => Inventory[<<t, pid>>] <= Inventory[<<s, pid>>] }

\* mutant of LineTotal: the quantity is left out
LineTotalOfOneUnit(unit_price_cents, quantity) == unit_price_cents

\* line_total_cents = unit_price_cents * quantity
LineTotal(unit_price_cents, quantity) == unit_price_cents * quantity

\* one pass of the validation loop: the price check, the seller query and the
\* accumulation for cart_items[i]
CO_SelectSeller(p) ==
    LET rec  == proc[p]
        item == rec.cart_items[rec.i]
        rows == SellerRows(item.product_id, item.quantity, rec.user)
        unit_price_cents == UnitPriceCents(item.price)
    IN  /\ rec.op = "checkout" /\ rec.pc = "select_seller"
        /\ IF ~item.has_price
           THEN proc' = [proc EXCEPT ![p] = Finish(rec, "has no price")]
           ELSE IF rows = {}
           THEN proc' = [proc EXCEPT ![p] = Finish(rec, "no seller with sufficient inventory")]
           ELSE \E seller_id \in rows :
                  proc' = [proc EXCEPT ![p] =
                     [rec EXCEPT
                        !.total_cents = @ + LineTotal(unit_price_cents, item.quantity),
                        !.items_to_order = Append(@,
                            [product_id |-> item.product_id, seller_id |-> seller_id,
                             quantity |-> item.quantity,
                             unit_price_cents |-> unit_price_cents]),
                        !.i = @ + 1,
                        !.pc = IF rec.i = Len(rec.cart_items)
                               THEN "check_balance" ELSE "select_seller"]]
        /\ UNCHANGED <<dbVars, orders_id_seq, order_items_id_seq, balLock, nreq, net>>

\* if buyer_balance < total_cents: return None, "Insufficient balance. .."
BalanceTooLow(buyer_balance, total_cents) == buyer_balance < total_cents

CO_CheckBalance(p) ==
    LET rec == proc[p]
        buyer_balance == get_balance(rec.user)
    IN  /\ rec.op = "checkout" /\ rec.pc = "check_balance"
        /\ proc' = [proc EXCEPT ![p] =
              IF BalanceTooLow(buyer_balance, rec.total_cents)
              THEN [Finish(rec, "Insufficient balance") EXCEPT !.buyer_balance = buyer_balance]
              ELSE [rec EXCEPT !.pc = "begin", !.buyer_balance = buyer_balance]]
        /\ UNCHANGED <<dbVars, orders_id_seq, order_items_id_seq, balLock, nreq, net>>

\* mutant of AddEarnings: = instead of +=, a seller's later line replaces the
\* earnings of the earlier ones
AddEarningsOverwriting(st, seller_id, seller_earnings) ==
    IF \E k \in 1..Len(st) : st[k].seller_id = seller_id
    THEN [k \in 1..Len(st) |->
            IF st[k].seller_id = seller_id
            THEN [st[k] EXCEPT !.earnings_cents = seller_earnings]
            ELSE st[k]]
    ELSE Append(st, [seller_id |-> seller_id, earnings_cents |-> seller_earnings])

\* mutant of AddEarnings: the earnings are not aggregated, every line gets an
\* entry of its own
AddEarningsPerLine(st, seller_id, seller_earnings) ==
    Append(st, [seller_id |-> seller_id, earnings_cents |-> seller_earnings])

\* seller_totals[seller_id] += seller_earnings, a new seller starting at 0;
\* the dict keeps its keys in insertion order
AddEarnings(st, seller_id, seller_earnings) ==
    IF \E k \in 1..Len(st) : st[k].seller_id = seller_id
    THEN [k \in 1..Len(st) |->
            IF st[k].seller_id = seller_id
            THEN [st[k] EXCEPT !.earnings_cents = @ + seller_earnings]
            ELSE st[k]]
    ELSE Append(st, [seller_id |-> seller_id, earnings_cents |-> seller_earnings])

RECURSIVE SellerTotals(_, _)
\* seller_totals after the first n items of the loop over items_to_order
SellerTotals(items, n) ==
    IF n = 0 THEN <<>>
    ELSE AddEarnings(SellerTotals(items, n - 1), items[n].seller_id,
                     LineTotal(items[n].unit_price_cents, items[n].quantity))

RECURSIVE OrderedQty(_, _, _)
\* the units the first n items take from the Inventory row k
OrderedQty(items, n, k) ==
    IF n = 0 THEN 0
    ELSE OrderedQty(items, n - 1, k)
         + (IF <<items[n].seller_id, items[n].product_id>> = k
            THEN items[n].quantity ELSE 0)

\* mutant of DecrementInventory: the UPDATE of the Inventory rows is missing
InventoryUntouched(inv, items) == inv

\* UPDATE Inventory SET quantity = quantity - :qty
\* WHERE user_id = :seller_id AND product_id = :product_id     (for every item)
DecrementInventory(inv, items) ==
    [k \in DOMAIN inv |-> inv[k] - OrderedQty(items, Len(items), k)]

\* the Inventory rows the transaction of a checkout has updated and keeps locked
InCommitPhase(rec) ==
    rec.op = "checkout" /\ rec.pc \in {"ab_lock", "ab_write", "clear_cart"}

LockedInventory(rec) ==
    IF InCommitPhase(rec)
    THEN {<<rec.items_to_order[k].seller_id, rec.items_to_order[k].product_id>> :
            k \in 1..Len(rec.items_to_order)} \cap DOMAIN Inventory
    ELSE {}

\* with db.engine.begin() as conn: INSERT INTO orders .. RETURNING id, then per
\* item INSERT INTO order_items and UPDATE Inventory (all pending until the
\* commit; the id sequences advance at once), then the call of
\* adjust_balance(user_id, -total_cents, "Order #id")
CO_Begin(p) ==
    LET rec  == proc[p]
        rows == {<<rec.items_to_order[k].seller_id, rec.items_to_order[k].product_id>> :
                   k \in 1..Len(rec.items_to_order)}
        order_id == orders_id_seq + 1
        started == [rec EXCEPT !.order_id = order_id,
                               !.first_item_id = order_items_id_seq + 1,
                               !.seller_totals =
                                   SellerTotals(rec.items_to_order, Len(rec.items_to_order)),
                               !.j = 1]
    IN  /\ rec.op = "checkout" /\ rec.pc = "begin"
        /\ \A q \in Procs \ {p} : LockedInventory(proc[q]) \cap rows = {}
        /\ orders_id_seq' = order_id
        /\ order_items_id_seq' = order_items_id_seq + Len(rec.items_to_order)
        /\ proc' = [proc EXCEPT ![p] =
              IF ZeroDelta(0 - rec.total_cents)
              THEN NextCredit(started)
              ELSE [started EXCEPT !.pc = "ab_lock", !.ab_user = rec.user,
                                   !.ab_delta = 0 - rec.total_cents,
                                   !.ab_note = OrderNote(order_id)]]
        /\ UNCHANGED <<dbVars, balLock, nreq, net>>

\* the order_items rows of the order of rec
NewOrderItems(rec) ==
    [id \in rec.first_item_id .. (rec.first_item_id + Len(rec.items_to_order) - 1) |->
        LET item == rec.items_to_order[id - rec.first_item_id + 1]
        IN  [order_id |-> rec.order_id, product_id |-> item.product_id,
             seller_id |-> item.seller_id, quantity |-> item.quantity,
             unit_price_cents |-> item.unit_price_cents, fulfilled_at |-> 0]]

\* DELETE FROM CartItem WHERE cart_id = (..), then the commit of conn: the
\* order, its items, the inventory updates and the cart delete become visible
CO_Commit(p) ==
    LET rec == proc[p]
    IN  /\ rec.op = "checkout" /\ rec.pc = "clear_cart"
        /\ orders' = Upsert(orders, rec.order_id,
                [buyer_id |-> rec.user, total_cents |-> rec.total_cents,
                 fulfilled |-> FALSE])
        /\ order_items' = order_items @@ NewOrderItems(rec)
        /\ Inventory' = DecrementInventory(Inventory, rec.items_to_order)
        /\ CartItem' = [CartItem EXCEPT ![rec.user] = <<>>]
        /\ proc' = [proc EXCEPT ![p] = Finish(rec, "ok")]
        /\ UNCHANGED <<account_balance, balance_tx, ProductsTbl, orders_id_seq,
                       order_items_id_seq, balLock, nreq, net, UsersTbl, Cart>>

\* except Exception as e: return None, f"Error processing order: {str(e)}".
\* A statement of the commit phase raises (constraint violation, deadlock,
\* serialization failure, lost connection): conn rolls back, and so does the
\* transaction of an adjust_balance call that is under way.
CO_Fail(p) ==
    LET rec == proc[p]
    IN  /\ rec.op = "checkout"
        /\ rec.pc \in {"begin", "ab_lock", "ab_write", "clear_cart"}
        /\ balLock' = [u \in Users |-> IF balLock[u] = p THEN 0 ELSE balLock[u]]
        /\ proc' = [proc EXCEPT ![p] = Finish(rec, "error")]
        /\ UNCHANGED <<dbVars, orders_id_seq, order_items_id_seq, nreq, net>>

(***************************************************************************)
(* The system.                                                             *)
(***************************************************************************)
Next ==
    \/ \E p \in Procs, u \in Users, delta \in Deltas : StartAdjust(p, u, delta)
    \/ \E p \in Procs : AB_Lock(p)
    \/ \E p \in Procs : AB_Write(p)
    \/ \E u \in Users : register(u)
    \/ \E u \in Users, amount \in TopUpAmounts : api_top_up(u, amount)
    \/ \E u \in Users, amount \in WithdrawAmounts : api_withdraw(u, amount)
    \/ \E p \in Procs, u \in Users : StartCheckout(p, u)
    \/ \E p \in Procs : CO_ReadCart(p)
    \/ \E p \in Procs : CO_SelectSeller(p)
    \/ \E p \in Procs : CO_CheckBalance(p)
    \/ \E p \in Procs : CO_Begin(p)
    \/ \E p \in Procs : CO_Commit(p)
    \/ \E p \in Procs : CO_Fail(p)

Spec == Init /\ [][Next]_vars

(***************************************************************************)
(* Properties.                                                             *)
(***************************************************************************)
\* process p took the step (every step changes at most one process)
Stepped(p) == proc'[p] # proc[p]

CheckoutDone(p, res) ==
    proc[p].op = "checkout" /\ proc[p].pc = "done" /\ proc[p].result = res

RECURSIVE SumLines(_)
\* sum of quantity * unit_price_cents over the order_items rows with ids in S
SumLines(S) ==
    IF S = {} THEN 0
    ELSE LET id == CHOOSE x \in S : TRUE
         IN  order_items[id].quantity * order_items[id].unit_price_cents
             + SumLines(S \ {id})

LinesOf(order_id) == {id \in DOMAIN order_items : order_items[id].order_id = order_id}

\* the balance_tx rows written for order order_id
OrderTxRows(order_id) ==
    {r \in BagToSet(balance_tx) :
        r.note \in {OrderNote(order_id), SaleNote(order_id)}}

\* C1: every user's balance_cents is >= 0 in every reachable state, whatever the
\* interleaving of adjust_balance, top-up, withdraw and submit_order.
C1_BalanceNonNegative ==
    \A u \in DOMAIN account_balance : account_balance[u] >= 0

\* C1 witness: a user was debited down to exactly 0.
C1_Witness ==
    \E u \in DOMAIN account_balance :
        /\ account_balance[u] = 0
        /\ \E r \in BagToSet(balance_tx) : r.user_id = u /\ r.amount_cents < 0

\* C2: under concurrent checkouts of different buyers that select the same
\* seller's Inventory row, the quantity of the row never goes negative.
C2_NoOversell ==
    \A k \in DOMAIN Inventory : Inventory[k] >= 0

\* C3: after a successful submit_order the buyer's balance went down by exactly
\* the order's total_cents and the sellers' balances went up by that total.
C3_Conservation ==
    \A p \in Procs :
        CheckoutDone(p, "ok") =>
            /\ proc[p].order_id \in DOMAIN orders
            /\ orders[proc[p].order_id].total_cents = proc[p].total_cents
            /\ proc[p].debited = proc[p].total_cents
            /\ proc[p].credited = proc[p].total_cents

\* C3 witness: a successful checkout of two lines that are sold by one seller.
C3_Witness ==
    \E p \in Procs :
        /\ CheckoutDone(p, "ok")
        /\ Len(proc[p].items_to_order) = 2
        /\ proc[p].items_to_order[1].seller_id = proc[p].items_to_order[2].seller_id
        /\ proc[p].total_cents > 0

ValidationPcs == {"read_cart", "select_seller", "check_balance"}

ValidationErrors ==
    {"Cart is empty", "has no price", "no seller with sufficient inventory",
     "Insufficient balance"}

\* C4: no step of submit_order's validation writes: when the call fails at a
\* validation step, balances, ledger, inventory, carts, orders and order lines
\* (and the id sequences) are as they were before the call.
C4_ValidationWritesNothing ==
    [][ \A p \in Procs :
          (proc[p].op = "checkout" /\ proc[p].pc \in ValidationPcs /\ Stepped(p))
          => UNCHANGED <<dbVars, orders_id_seq, order_items_id_seq, balLock>> ]_vars

\* C4 witness: a checkout failed at a validation step after an earlier line of
\* the same cart had validated.
C4_Witness ==
    \E p \in Procs :
        /\ proc[p].op = "checkout" /\ proc[p].pc = "done"
        /\ proc[p].result \in ValidationErrors
        /\ Len(proc[p].items_to_order) >= 1

\* C5: when a step of submit_order's commit phase raises, nothing of the
\* checkout persists: no order, no order line, no buyer debit, no seller
\* credit, no ledger row.
C5_FailedCheckoutLeavesNothing ==
    \A p \in Procs :
        CheckoutDone(p, "error") =>
            /\ proc[p].order_id \notin DOMAIN orders
            /\ LinesOf(proc[p].order_id) = {}
            /\ proc[p].debited = 0
            /\ proc[p].credited = 0
            /\ OrderTxRows(proc[p].order_id) = {}

\* the users other than buyer who hold at least qty units of product pid
OtherHolders(pid, qty, buyer_id) ==
    { s \in Users \ {buyer_id} :
        <<s, pid>> \in DOMAIN Inventory /\ Inventory[<<s, pid>>] >= qty }

\* C6: no order line has its order's buyer as seller, committed or about to be
\* committed; and when no user other than the buyer holds enough units of a
\* priced cart product, the seller query of submit_order ends the checkout with
\* the no-seller error and writes nothing, also when the buyer holds enough.
C6_NoSelfDealing ==
    /\ [](/\ \A id \in DOMAIN order_items :
               order_items[id].seller_id # orders[order_items[id].order_id].buyer_id
          /\ \A p \in Procs : \A k \in 1..Len(proc[p].items_to_order) :
               proc[p].items_to_order[k].seller_id # proc[p].user)
    /\ [][ \A p \in Procs :
             (/\ proc[p].op = "checkout" /\ proc[p].pc = "select_seller" /\ Stepped(p)
              /\ proc[p].cart_items[proc[p].i].has_price
              /\ OtherHolders(proc[p].cart_items[proc[p].i].product_id,
                              proc[p].cart_items[proc[p].i].quantity,
                              proc[p].user) = {})
             => /\ proc'[p].pc = "done"
                /\ proc'[p].result = "no seller with sufficient inventory"
                /\ UNCHANGED dbVars ]_vars

\* C6 witness: a checkout ended with the no-seller error although the buyer
\* holds enough units of the product of a cart line herself.
C6_Witness ==
    \E p \in Procs :
        /\ CheckoutDone(p, "no seller with sufficient inventory")
        /\ \E k \in 1..Len(CartItem[proc[p].user]) :
              LET line == CartItem[proc[p].user][k]
              IN  /\ <<proc[p].user, line.product_id>> \in DOMAIN Inventory
                  /\ Inventory[<<proc[p].user, line.product_id>>] >= line.quantity
                  /\ OtherHolders(line.product_id, line.quantity, proc[p].user) = {}

\* C7: for every user the sum of amount_cents over the user's balance_tx rows
\* equals the user's balance_cents (0 for a user without a balance row).
C7_LedgerMatchesBalance ==
    \A u \in Users : LedgerSum(u) = get_balance(u)

\* C7 witness: a seller without a balance row was credited by a checkout, and
\* the buyer has the top-up row and the order row.
C7_Witness ==
    \E r \in BagToSet(balance_tx), b \in BagToSet(balance_tx) :
        /\ r.note[1] = "Order sale" /\ r.user_id = 3
        /\ b.note = OrderNote(r.note[2])
        /\ LedgerSum(b.user_id) # b.amount_cents

\* C8: an adjust_balance call whose current balance + delta is negative fails
\* with the insufficient-funds error, leaves balance_cents as it is and writes
\* no balance_tx row.
C8_InsufficientFundsNoChange ==
    [][ \A p \in Procs :
          (/\ proc[p].pc = "ab_write" /\ Stepped(p)
           /\ get_balance(proc[p].ab_user) + proc[p].ab_delta < 0)
          => /\ proc'[p].pc = "done"
             /\ proc'[p].result = IF proc[p].op = "adjust"
                                  THEN "insufficient_funds" ELSE "error"
             /\ UNCHANGED <<account_balance, balance_tx>> ]_vars

\* C8 witness: a direct adjust_balance call was refused for insufficient funds.
C8_Witness ==
    \E p \in Procs :
        /\ proc[p].op = "adjust" /\ proc[p].pc = "done"
        /\ proc[p].result = "insufficient_funds"
        /\ get_balance(proc[p].ab_user) + proc[p].ab_delta < 0

\* C9: concurrent adjust_balance calls for one user are serialized by the row
\* lock: no update is lost (the balance is the sum of the amounts of the
\* operations that succeeded), at most one call is between its locking read
\* and its commit, and every call that succeeded returned a balance >= 0.
C9_NoLostUpdate ==
    /\ \A u \in Users : get_balance(u) = net[u]
    /\ \A p \in Procs, q \in Procs :
          (p # q /\ proc[p].pc = "ab_write" /\ proc[q].pc = "ab_write")
          => proc[p].ab_user # proc[q].ab_user
    /\ \A p \in Procs :
          (proc[p].op = "adjust" /\ proc[p].pc = "done" /\ proc[p].result = "ok")
          => proc[p].new_balance >= 0

\* C9 witness: one adjust_balance call holds the row lock of a user while
\* another call for the same user waits for it.
C9_Witness ==
    \E p \in Procs, q \in Procs :
        /\ proc[p].op = "adjust" /\ proc[p].pc = "ab_write"
        /\ proc[q].op = "adjust" /\ proc[q].pc = "ab_lock"
        /\ proc[p].ab_user = proc[q].ab_user

\* C10: the total_cents of every committed order is the sum of
\* quantity * unit_price_cents over its order lines.
C10_TotalIsSumOfLines ==
    \A id \in DOMAIN orders : orders[id].total_cents = SumLines(LinesOf(id))

\* C10 witness: a committed order of two lines with different unit prices.
C10_Witness ==
    \E id \in DOMAIN orders :
        /\ Cardinality(LinesOf(id)) = 2
        /\ \E a \in LinesOf(id), b \in LinesOf(id) :
              order_items[a].unit_price_cents # order_items[b].unit_price_cents

(***************************************************************************)
(* Scenario A of the testable properties: one buyer with 500 cents and a   *)
(* cart of one line (a product priced 5.00, quantity 1), a seller X other  *)
(* than the buyer holding 10 units, and one submit_order call that no      *)
(* storage failure interrupts.  What the scenario leaves open varies: who  *)
(* buyer and seller are, the product, the seller's balance row, the        *)
(* buyer's own stock of the product and a third user's smaller stock.      *)
(***************************************************************************)
InitA ==
    \E b \in Users, pid \in Products : \E x \in Users \ {b} :
    \E sb \in {-1, 0, 250}, own \in BOOLEAN, third \in {0, 3} :
        /\ account_balance =
              [u \in {b} \cup (IF sb < 0 THEN {} ELSE {x}) |-> IF u = b THEN 500 ELSE sb]
        /\ balance_tx = SetToBag({ TxRow(u, account_balance[u], <<"top up", 0>>) :
                            u \in {v \in DOMAIN account_balance : account_balance[v] # 0} })
        /\ Inventory =
              [k \in {<<x, pid>>} \cup (IF own THEN {<<b, pid>>} ELSE {})
                     \cup (IF third > 0 THEN {<<u, pid>> : u \in Users \ {b, x}} ELSE {}) |->
                  IF k[1] = x THEN 10 ELSE IF k[1] = b THEN 20 ELSE third]
        /\ CartItem = [u \in Users |-> IF u = b THEN <<Line(pid, 1)>> ELSE <<>>]
        /\ ProductsTbl = [p \in Products |->
              [has_price |-> TRUE, price |-> IF p = pid THEN 500 ELSE 100,
               available |-> TRUE]]
        /\ orders = <<>>
        /\ order_items = <<>>
        /\ orders_id_seq = 0
        /\ order_items_id_seq = 0
        /\ balLock = [u \in Users |-> 0]
        /\ proc = [p \in Procs |-> IdleProc]
        /\ nreq = 0
        /\ net = [u \in Users |-> get_balance(u)]
        /\ UsersTbl = Users
        /\ Cart = {b}

\* the one request of the scenario: the buyer's checkout
A_Checkout ==
    /\ nreq = 0
    /\ \E p \in Procs, u \in Users : CartItem[u] # <<>> /\ StartCheckout(p, u)

NextA ==
    \/ A_Checkout
    \/ \E p \in Procs : CO_ReadCart(p)
    \/ \E p \in Procs : CO_SelectSeller(p)
    \/ \E p \in Procs : CO_CheckBalance(p)
    \/ \E p \in Procs : CO_Begin(p)
    \/ \E p \in Procs : AB_Lock(p)
    \/ \E p \in Procs : AB_Write(p)
    \/ \E p \in Procs : CO_Commit(p)

SpecA == InitA /\ [][NextA]_vars

\* what the top-ups of user u brought in (the balance before the checkout)
TopUps(u) ==
    SumRows({r \in BagToSet(balance_tx) : r.user_id = u /\ r.note = <<"top up", 0>>},
            balance_tx)

\* C11: Scenario A.  With buyer balance 500, a cart of one line (price 5.00,
\* quantity 1) and a seller X other than the buyer holding 10 units,
\* submit_order succeeds; afterwards the buyer's balance is 0, X's balance is
\* 500 higher, X holds 9 units, the buyer's cart is empty, and there is exactly
\* one order, of total_cents 500, with exactly one order line.
C11_ScenarioA ==
    \A p \in Procs :
        proc[p].pc = "done" =>
            LET b   == proc[p].user
                pid == proc[p].items_to_order[1].product_id
                X   == { x \in Users \ {b} :
                           <<x, pid>> \in DOMAIN Inventory /\ Inventory[<<x, pid>>] >= 9 }
            IN  /\ proc[p].result = "ok"
                /\ Len(proc[p].items_to_order) = 1
                /\ get_balance(b) = 0
                /\ Cardinality(X) = 1
                /\ \A x \in X : /\ Inventory[<<x, pid>>] = 9
                                /\ x \in DOMAIN account_balance
                                /\ account_balance[x] = TopUps(x) + 500
                /\ \A k \in DOMAIN Inventory : k[1] \notin X =>
                        Inventory[k] = IF k[1] = b THEN 20 ELSE 3
                /\ CartItem[b] = <<>>
                /\ DOMAIN orders = {proc[p].order_id}
                /\ orders[proc[p].order_id] =
                      [buyer_id |-> b, total_cents |-> 500, fulfilled |-> FALSE]
                /\ Cardinality(DOMAIN order_items) = 1
                /\ \A id \in DOMAIN order_items :
                      /\ order_items[id].order_id = proc[p].order_id
                      /\ order_items[id].seller_id \in X
                      /\ order_items[id].quantity = 1
                      /\ order_items[id].unit_price_cents = 500

\* C11 witness: the checkout of Scenario A is done, the buyer also holds the
\* product herself, and seller X, who had no balance row, now has 500.
C11_Witness ==
    \E p \in Procs :
        /\ CheckoutDone(p, "ok")
        /\ \E k \in DOMAIN Inventory : k[1] = proc[p].user /\ Inventory[k] = 20
        /\ \E x \in DOMAIN account_balance :
              x # proc[p].user /\ account_balance[x] = 500 /\ TopUps(x) = 0

(***************************************************************************)
(* Registration and the balance rows: users register through either        *)
(* handler, and registered users top up and adjust their balance.          *)
(***************************************************************************)
\* some users are registered already, each with a balance row (0 or a top-up)
InitReg ==
    \E reg \in SUBSET Users : \E bal \in [reg -> {0, 200}] :
        /\ UsersTbl = reg
        /\ account_balance = bal
        /\ balance_tx = SetToBag({ TxRow(u, bal[u], <<"top up", 0>>) :
                                   u \in {v \in reg : bal[v] # 0} })
        /\ Inventory = <<>>
        /\ CartItem = [u \in Users |-> <<>>]
        /\ ProductsTbl \in InitCatalogs
        /\ orders = <<>>
        /\ order_items = <<>>
        /\ orders_id_seq = 0
        /\ order_items_id_seq = 0
        /\ balLock = [u \in Users |-> 0]
        /\ proc = [p \in Procs |-> IdleProc]
        /\ nreq = 0
        /\ net = [u \in Users |-> get_balance(u)]
        /\ Cart = {}

NextReg ==
    \/ \E u \in Users : User_create(u)
    \/ \E u \in Users : register(u)
    \/ \E u \in Users : api_register(u)
    \/ \E u \in UsersTbl, amount \in TopUpAmounts : api_top_up(u, amount)
    \/ \E p \in Procs, u \in UsersTbl, delta \in Deltas : StartAdjust(p, u, delta)
    \/ \E p \in Procs : AB_Lock(p)
    \/ \E p \in Procs : AB_Write(p)

SpecReg == InitReg /\ [][NextReg]_vars

\* C12: every registered user has exactly one Balance record: in every
\* reachable state, also after a registration that is interrupted or fails
\* partway, a Users row exists if and only if an account_balance row exists for
\* it (user_id is the key of account_balance: a row that exists is the only one).
C12_OneBalancePerUser ==
    \A u \in Users : (u \in UsersTbl) <=> (u \in DOMAIN account_balance)

(***************************************************************************)
(* The cart (cart.py).  Every statement of a cart function is its own      *)
(* transaction; a user's cart is written by that user's requests, one      *)
(* after the other, so each call is one step.  The record of the worker    *)
(* that served a call keeps the call, its number and its result.           *)
(***************************************************************************)
\* the quantity and product_id arguments of the cart routes: any integers
CartQuantities == {-2, -1, 0, 1, 2}
CartProductIds == Products \cup {3}

\* the position of the CartItem row of product pid in the cart of u, 0 if none
\* (SELECT id, quantity FROM CartItem WHERE cart_id = :cid AND product_id = :pid)
ItemIndex(u, pid) ==
    IF \E k \in 1..Len(CartItem[u]) : CartItem[u][k].product_id = pid
    THEN CHOOSE k \in 1..Len(CartItem[u]) : CartItem[u][k].product_id = pid
    ELSE 0

\* DELETE FROM CartItem WHERE id = :id
RemoveAt(items, k) == SubSeq(items, 1, k - 1) \o SubSeq(items, k + 1, Len(items))

\* mutant of ensure_product_available: the availability flag is not looked at
ensure_product_exists(pid) ==
    IF pid \notin DOMAIN ProductsTbl THEN "Product does not exist." ELSE ""

\* _ensure_product_available: "" when the product may enter a cart, else the
\* message of the CartError
ensure_product_available(pid) ==
    IF pid \notin DOMAIN ProductsTbl THEN "Product does not exist."
    ELSE IF ~ProductsTbl[pid].available
    THEN "Product is not available for purchase right now."
    ELSE ""

\* mutant of NonPositive: < instead of <=, a quantity of 0 is kept
Negative(q) == q < 0

\* if new_q <= 0 / if qty <= 0: the row is deleted
NonPositive(q) == q <= 0

\* the worker that serves the call number nreq + 1: the workers are
\* interchangeable and every call is one step, so they take turns
Serves(p) == Free(p) /\ p = (nreq % NumProcs) + 1

\* the record of the call number nreq + 1: the call, its user, its result
CartCall(op, u, res) ==
    [IdleProc EXCEPT !.op = op, !.pc = "done", !.user = u, !.result = res,
                     !.req = nreq + 1]

add_item_to_cart(p, u, pid, qty) ==
    LET k == ItemIndex(u, pid)
        new_q == CartItem[u][k].quantity + qty
        err == ensure_product_available(pid)
    IN  /\ Serves(p)
        /\ nreq < MaxRequests
        /\ nreq' = nreq + 1
        /\ Cart' = Cart \cup {u}
        /\ IF k # 0
           THEN /\ CartItem' = [CartItem EXCEPT ![u] =
                      IF NonPositive(new_q) THEN RemoveAt(@, k)
                      ELSE [@ EXCEPT ![k].quantity = new_q]]
                /\ proc' = [proc EXCEPT ![p] = CartCall("add_item_to_cart", u, "ok")]
           ELSE IF qty > 0
           THEN IF err = ""
                THEN /\ CartItem' = [CartItem EXCEPT ![u] = Append(@, Line(pid, qty))]
                     /\ proc' = [proc EXCEPT ![p] = CartCall("add_item_to_cart", u, "ok")]
                ELSE /\ CartItem' = CartItem
                     /\ proc' = [proc EXCEPT ![p] = CartCall("add_item_to_cart", u, err)]
           ELSE /\ CartItem' = CartItem
                /\ proc' = [proc EXCEPT ![p] = CartCall("add_item_to_cart", u, "ok")]
        /\ UNCHANGED <<account_balance, balance_tx, Inventory, ProductsTbl, orders,
                       order_items, orders_id_seq, order_items_id_seq, balLock, net,
                       UsersTbl>>

set_item_quantity(p, u, pid, qty) ==
    LET k == ItemIndex(u, pid)
        err == ensure_product_available(pid)
    IN  /\ Serves(p)
        /\ nreq < MaxRequests
        /\ nreq' = nreq + 1
        /\ Cart' = Cart \cup {u}
        /\ IF NonPositive(qty)
           THEN /\ CartItem' = [CartItem EXCEPT ![u] =
                      IF k # 0 THEN RemoveAt(@, k) ELSE @]
                /\ proc' = [proc EXCEPT ![p] = CartCall("set_item_quantity", u, "ok")]
           ELSE IF k # 0
           THEN /\ CartItem' = [CartItem EXCEPT ![u][k].quantity = qty]
                /\ proc' = [proc EXCEPT ![p] = CartCall("set_item_quantity", u, "ok")]
           ELSE IF err = ""
           THEN /\ CartItem' = [CartItem EXCEPT ![u] = Append(@, Line(pid, qty))]
                /\ proc' = [proc EXCEPT ![p] = CartCall("set_item_quantity", u, "ok")]
           ELSE /\ CartItem' = CartItem
                /\ proc' = [proc EXCEPT ![p] = CartCall("set_item_quantity", u, err)]
        /\ UNCHANGED <<account_balance, balance_tx, Inventory, ProductsTbl, orders,
                       order_items, orders_id_seq, order_items_id_seq, balLock, net,
                       UsersTbl>>

\* mutant of clear_cart: a call that finds nothing to delete reports an error
clear_cart_strict(p, u) ==
    /\ Serves(p)
    /\ nreq < MaxRequests
    /\ nreq' = nreq + 1
    /\ CartItem' = [CartItem EXCEPT ![u] = <<>>]
    /\ proc' = [proc EXCEPT ![p] =
          CartCall("clear_cart", u, IF CartItem[u] = <<>> THEN "error" ELSE "ok")]
    /\ UNCHANGED <<account_balance, balance_tx, Inventory, ProductsTbl, orders,
                   order_items, orders_id_seq, order_items_id_seq, balLock, net,
                   UsersTbl, Cart>>

\* DELETE FROM CartItem WHERE cart_id = (SELECT id FROM Cart WHERE user_id = :uid):
\* without a Cart row the subquery is NULL and no row matches
clear_cart(p, u) ==
    /\ Serves(p)
    /\ nreq < MaxRequests
    /\ nreq' = nreq + 1
    /\ CartItem' = [CartItem EXCEPT ![u] = IF u \in Cart THEN <<>> ELSE @]
    /\ proc' = [proc EXCEPT ![p] = CartCall("clear_cart", u, "ok")]
    /\ UNCHANGED <<account_balance, balance_tx, Inventory, ProductsTbl, orders,
                   order_items, orders_id_seq, order_items_id_seq, balLock, net,
                   UsersTbl, Cart>>

\* user 1 has product 1 in the cart, user 2 may have a line, user 3 has no
\* Cart row; product 2 may be unavailable
InitCart ==
    \E c1 \in {<<Line(1, 1)>>, <<Line(2, 2), Line(1, 2)>>},
       c2 \in {<<>>, <<Line(1, 2)>>}, av \in BOOLEAN :
        /\ CartItem = [u \in Users |-> IF u = 1 THEN c1 ELSE IF u = 2 THEN c2 ELSE <<>>]
        /\ Cart = {u \in Users : CartItem[u] # <<>>}
        /\ ProductsTbl = [pid \in Products |->
              [has_price |-> TRUE, price |-> 100, available |-> (pid = 1 \/ av)]]
        /\ account_balance = <<>>
        /\ balance_tx = EmptyBag
        /\ Inventory = <<>>
        /\ orders = <<>>
        /\ order_items = <<>>
        /\ orders_id_seq = 0
        /\ order_items_id_seq = 0
        /\ balLock = [u \in Users |-> 0]
        /\ proc = [p \in Procs |-> IdleProc]
        /\ nreq = 0
        /\ net = [u \in Users |-> 0]
        /\ UsersTbl = Users

NextCart ==
    \/ \E p \in Procs, u \in Users, pid \in CartProductIds, qty \in CartQuantities :
          add_item_to_cart(p, u, pid, qty)
    \/ \E p \in Procs, u \in Users, pid \in CartProductIds, qty \in CartQuantities :
          set_item_quantity(p, u, pid, qty)
    \/ \E p \in Procs, u \in Users : clear_cart(p, u)

SpecCart == InitCart /\ [][NextCart]_vars

\* C13: every stored CartItem has quantity > 0 in every reachable state: after
\* any sequence of add_item_to_cart (any integer delta), set_item_quantity (any
\* integer) and clear_cart, a row whose quantity would be <= 0 is deleted.
C13_CartQuantityPositive ==
    \A u \in Users : \A k \in 1..Len(CartItem[u]) : CartItem[u][k].quantity > 0

\* C13 witness: the first call was an add_item_to_cart of user 1, who had a
\* line in the cart, and it left the cart empty: it took at least as many
\* units as the line had (a negative delta) and the row was deleted.
C13_Witness ==
    \E p \in Procs :
        /\ nreq = 1
        /\ proc[p].op = "add_item_to_cart" /\ proc[p].user = 1 /\ proc[p].req = 1
        /\ CartItem[1] = <<>>

\* process p takes the step, a clear_cart call
ClearStep(p) ==
    /\ nreq' = nreq + 1
    /\ proc'[p].op = "clear_cart" /\ proc'[p].req = nreq'

\* C14: clear_cart is idempotent: every call, also one that follows another
\* call for the same user or finds no Cart row, raises no error and leaves
\* the user's cart empty and the other users' carts as they were; a call on
\* an empty cart changes nothing.
C14_ClearCartIdempotent ==
    [][ \A p \in Procs :
          ClearStep(p) =>
             LET u == proc'[p].user
             IN  /\ proc'[p].result = "ok"
                 /\ CartItem'[u] = <<>>
                 /\ \A v \in Users \ {u} : CartItem'[v] = CartItem[v]
                 /\ CartItem[u] = <<>> => UNCHANGED dbVars ]_vars

\* C14 witness: clear_cart was called twice in a row for user 1, who had
\* lines in the cart before the first call.
C14_Witness ==
    \E p \in Procs, q \in Procs :
        /\ proc[p].op = "clear_cart" /\ proc[p].user = 1 /\ proc[p].req = 1
        /\ proc[q].op = "clear_cart" /\ proc[q].user = 1 /\ proc[q].req = 2
        /\ CartItem[1] = <<>>

(***************************************************************************)
(* The inventory of a seller and the fulfilment of order lines             *)
(* (inventory.py).  Each function is one transaction (engine.begin), one   *)
(* step.                                                                   *)
(***************************************************************************)
\* the last timestamp of the clock (a bound of the model)
MaxTime == 2

\* the quantity the forms of the inventory routes pass: int(request.form['quantity'])
InvQuantities == {-1, 0, 3}

\* the record of the inventory call number nreq + 1
InvCall(op, u, pid, res) ==
    [IdleProc EXCEPT !.op = op, !.pc = "done", !.user = u, !.result = res,
                     !.req = nreq + 1, !.product_id = pid]

\* the table without the row k
DeleteRow(tbl, k) == [x \in DOMAIN tbl \ {k} |-> tbl[x]]

add_product_to_inventory(p, u, pid, quantity) ==
    /\ Serves(p)
    /\ nreq < MaxRequests
    /\ nreq' = nreq + 1
    /\ Inventory' =
          IF <<u, pid>> \in DOMAIN Inventory
          THEN [Inventory EXCEPT ![<<u, pid>>] = @ + quantity]
          ELSE Upsert(Inventory, <<u, pid>>, quantity)
    /\ proc' = [proc EXCEPT ![p] = InvCall("add_product_to_inventory", u, pid, "ok")]
    /\ UNCHANGED <<account_balance, balance_tx, CartItem, ProductsTbl, orders,
                   order_items, orders_id_seq, order_items_id_seq, balLock, net,
                   UsersTbl, Cart>>

update_product_quantity(p, u, pid, new_quantity) ==
    /\ Serves(p)
    /\ nreq < MaxRequests
    /\ nreq' = nreq + 1
    /\ IF <<u, pid>> \notin DOMAIN Inventory
       THEN /\ Inventory' = Inventory
            /\ proc' = [proc EXCEPT ![p] =
                  InvCall("update_product_quantity", u, pid, "Product not found in inventory")]
       ELSE /\ Inventory' = [Inventory EXCEPT ![<<u, pid>>] = new_quantity]
            /\ proc' = [proc EXCEPT ![p] =
                  InvCall("update_product_quantity", u, pid, "ok")]
    /\ UNCHANGED <<account_balance, balance_tx, CartItem, ProductsTbl, orders,
                   order_items, orders_id_seq, order_items_id_seq, balLock, net,
                   UsersTbl, Cart>>

remove_product_from_inventory(p, u, pid) ==
    /\ Serves(p)
    /\ nreq < MaxRequests
    /\ nreq' = nreq + 1
    /\ IF <<u, pid>> \notin DOMAIN Inventory
       THEN /\ Inventory' = Inventory
            /\ proc' = [proc EXCEPT ![p] =
                  InvCall("remove_product_from_inventory", u, pid,
                          "Product not found in inventory")]
       ELSE /\ Inventory' = DeleteRow(Inventory, <<u, pid>>)
            /\ proc' = [proc EXCEPT ![p] =
                  InvCall("remove_product_from_inventory", u, pid, "ok")]
    /\ UNCHANGED <<account_balance, balance_tx, CartItem, ProductsTbl, orders,
                   order_items, orders_id_seq, order_items_id_seq, balLock, net,
                   UsersTbl, Cart>>

\* NOW(): the clock does not run backwards, so the timestamp is not before
\* any timestamp already stored
Now(t) ==
    /\ t \in 1..MaxTime
    /\ \A id \in DOMAIN order_items : order_items[id].fulfilled_at <= t

\* mutant of mark_line_item_as_fulfilled: WHERE id = :line_item_id alone
mark_line_item_by_id(seller_id, order_id, line_item_id, t) ==
    /\ Now(t)
    /\ order_items' =
          [id \in DOMAIN order_items |->
              IF id = line_item_id
              THEN [order_items[id] EXCEPT !.fulfilled_at = t]
              ELSE order_items[id]]
    /\ UNCHANGED <<account_balance, balance_tx, Inventory, CartItem, ProductsTbl,
                   orders, orders_id_seq, order_items_id_seq, balLock, proc, nreq,
                   net, UsersTbl, Cart>>

\* UPDATE order_items SET fulfilled_at = NOW()
\* WHERE seller_id = :seller_id AND order_id = :order_id AND id = :line_item_id
mark_line_item_as_fulfilled(seller_id, order_id, line_item_id, t) ==
    /\ Now(t)
    /\ order_items' =
          [id \in DOMAIN order_items |->
              IF /\ id = line_item_id
                 /\ order_items[id].seller_id = seller_id
                 /\ order_items[id].order_id = order_id
              THEN [order_items[id] EXCEPT !.fulfilled_at = t]
              ELSE order_items[id]]
    /\ UNCHANGED <<account_balance, balance_tx, Inventory, CartItem, ProductsTbl,
                   orders, orders_id_seq, order_items_id_seq, balLock, proc, nreq,
                   net, UsersTbl, Cart>>

\* no request is under way
Quiet == \A q \in Procs : Free(q)

\* sellers edit their inventory and fulfil order lines, buyers check out; the
\* requests do not overlap
NextInv ==
    \/ Quiet /\ \E p \in Procs, u \in Users : StartCheckout(p, u)
    \/ \E p \in Procs : CO_ReadCart(p)
    \/ \E p \in Procs : CO_SelectSeller(p)
    \/ \E p \in Procs : CO_CheckBalance(p)
    \/ \E p \in Procs : CO_Begin(p)
    \/ \E p \in Procs : AB_Lock(p)
    \/ \E p \in Procs : AB_Write(p)
    \/ \E p \in Procs : CO_Commit(p)
    \/ Quiet /\ \E p \in Procs, u \in Users, pid \in Products, quantity \in InvQuantities :
          add_product_to_inventory(p, u, pid, quantity)
    \/ Quiet /\ \E p \in Procs, u \in Users, pid \in Products, quantity \in InvQuantities :
          update_product_quantity(p, u, pid, quantity)
    \/ Quiet /\ \E p \in Procs, u \in Users, pid \in Products :
          remove_product_from_inventory(p, u, pid)
    \/ \E seller_id \in Users, order_id \in DOMAIN orders,
          line_item_id \in DOMAIN order_items, t \in 1..MaxTime :
          mark_line_item_as_fulfilled(seller_id, order_id, line_item_id, t)

SpecInv == Init /\ [][NextInv]_vars

\* an order line of seller s for product pid is not fulfilled yet
Outstanding(s, pid) ==
    \E id \in DOMAIN order_items :
        /\ order_items[id].seller_id = s
        /\ order_items[id].product_id = pid
        /\ order_items[id].fulfilled_at = 0

\* process p takes the step, a remove_product_from_inventory call
RemoveStep(p) ==
    /\ nreq' = nreq + 1
    /\ proc'[p].op = "remove_product_from_inventory" /\ proc'[p].req = nreq'

\* C15: removing an inventory entry (seller, product) fails with a
\* HasOutstandingOrders error and leaves the entry in place whenever an order
\* line of that seller and product has fulfilled_at null.
C15_RemoveRefusedWhileOutstanding ==
    [][ \A p \in Procs :
          (/\ RemoveStep(p)
           /\ <<proc'[p].user, proc'[p].product_id>> \in DOMAIN Inventory
           /\ Outstanding(proc'[p].user, proc'[p].product_id))
          => /\ proc'[p].result = "HasOutstandingOrders"
             /\ Inventory' = Inventory ]_vars

\* C16: the fulfilled_at of an order line changes at most once, from null to
\* a timestamp: once it is not null, no step changes it or sets it to null.
C16_FulfilledAtSetOnce ==
    [][ \A id \in DOMAIN order_items :
          order_items[id].fulfilled_at # 0
          => /\ id \in DOMAIN order_items'
             /\ order_items'[id].fulfilled_at = order_items[id].fulfilled_at ]_vars

\* C17: every Inventory row has quantity >= 0 in every reachable state, after
\* any sequence of stock additions, quantity edits, removals and checkouts
\* that do not overlap, with any integer quantity the inventory routes pass.
C17_InventoryNonNegative ==
    \A u \in Users, pid \in Products :
        <<u, pid>> \in DOMAIN Inventory => ~(Inventory[<<u, pid>>] < 0)

(***************************************************************************)
(* Seller selection, the ledger rows of an order and the zero adjustment.  *)
(***************************************************************************)
\* C18: for each cart line, the seller submit_order assigns is an Inventory
\* holder other than the buyer whose quantity is >= the requested quantity
\* and the largest among all such holders of the product; when there is no
\* such holder the checkout fails with the no-seller error.
C18_SellerHasMostStock ==
    [][ \A p \in Procs :
          (/\ proc[p].op = "checkout" /\ proc[p].pc = "select_seller" /\ Stepped(p)
           /\ proc[p].cart_items[proc[p].i].has_price)
          => LET item    == proc[p].cart_items[proc[p].i]
                 holders == OtherHolders(item.product_id, item.quantity, proc[p].user)
                 n       == Len(proc[p].items_to_order) + 1
             IN  IF holders = {}
                 THEN /\ proc'[p].pc = "done"
                      /\ proc'[p].result = "no seller with sufficient inventory"
                 ELSE /\ proc'[p].pc # "done"
                      /\ Len(proc'[p].items_to_order) = n
                      /\ proc'[p].items_to_order[n].product_id = item.product_id
                      /\ proc'[p].items_to_order[n].quantity = item.quantity
                      /\ proc'[p].items_to_order[n].seller_id \in holders
                      /\ \A t \in holders :
                            Inventory[<<t, item.product_id>>] <=
                            Inventory[<<proc'[p].items_to_order[n].seller_id,
                                        item.product_id>>] ]_vars

\* C18 witness: a checkout has just assigned the seller of its first line,
\* and another user than the buyer holds enough units of the product too, but
\* fewer than the assigned seller.
C18_Witness ==
    \E p \in Procs :
        /\ proc[p].op = "checkout" /\ proc[p].pc = "check_balance"
        /\ Len(proc[p].items_to_order) = 1
        /\ LET item == proc[p].items_to_order[1]
           IN  \E t \in OtherHolders(item.product_id, item.quantity, proc[p].user) :
                  /\ <<item.seller_id, item.product_id>> \in DOMAIN Inventory
                  /\ Inventory[<<t, item.product_id>>] <
                     Inventory[<<item.seller_id, item.product_id>>]

\* a marketplace as in Init where product 2 costs 0.29 or nothing (0.00):
\* user 1 has product 2 in the cart, alone or after product 1; user 3 sells
\* product 1, user 2 or user 3 sells product 2
InitLedger ==
    \E c1 \in {<<Line(1, 1), Line(2, 1)>>, <<Line(2, 2)>>}, h \in {2, 3},
       price2 \in {0, 29} :
        /\ account_balance \in InitBalances
        /\ balance_tx = SetToBag({ TxRow(u, account_balance[u], <<"top up", 0>>) :
                            u \in {x \in DOMAIN account_balance : account_balance[x] # 0} })
        /\ Inventory = [k \in {<<3, 1>>, <<h, 2>>} |-> 2]
        /\ CartItem = [u \in Users |->
                          IF u = 1 THEN c1 ELSE IF u = 2 THEN <<Line(1, 1)>> ELSE <<>>]
        /\ ProductsTbl = [pid \in Products |->
              [has_price |-> TRUE, price |-> IF pid = 1 THEN 100 ELSE price2,
               available |-> TRUE]]
        /\ orders = <<>>
        /\ order_items = <<>>
        /\ orders_id_seq = 0
        /\ order_items_id_seq = 0
        /\ balLock = [u \in Users |-> 0]
        /\ proc = [p \in Procs |-> IdleProc]
        /\ nreq = 0
        /\ net = [u \in Users |-> get_balance(u)]
        /\ UsersTbl = Users
        /\ Cart = {1, 2}

SpecLedger == InitLedger /\ [][Next]_vars

\* the sellers of the lines of order order_id
SellersOf(order_id) == {order_items[id].seller_id : id \in LinesOf(order_id)}

\* the sum of quantity * unit_price_cents over the lines of seller s in the order
Subtotal(order_id, s) ==
    SumLines({id \in LinesOf(order_id) : order_items[id].seller_id = s})

\* the balance_tx rows with the note n, and how many there are
RowsWithNote(n) == {r \in BagToSet(balance_tx) : r.note = n}

RECURSIVE Copies(_, _)
Copies(S, b) ==
    IF S = {} THEN 0
    ELSE LET r == CHOOSE x \in S : TRUE
         IN  CopiesIn(r, b) + Copies(S \ {r}, b)

CountWithNote(n) == Copies(RowsWithNote(n), balance_tx)

\* C19 as stated: a successful checkout writes exactly one credit ledger entry
\* per distinct seller of the order, of the sum of quantity * unit_price_cents
\* over that seller's lines, and exactly one debit ledger entry of -total_cents
\* for the buyer; no entries per line.
C19_OneEntryPerParty ==
    \A id \in DOMAIN orders :
        /\ CountWithNote(OrderNote(id)) = 1
        /\ RowsWithNote(OrderNote(id)) =
              {TxRow(orders[id].buyer_id, 0 - orders[id].total_cents, OrderNote(id))}
        /\ CountWithNote(SaleNote(id)) = Cardinality(SellersOf(id))
        /\ RowsWithNote(SaleNote(id)) =
              {TxRow(s, Subtotal(id, s), SaleNote(id)) : s \in SellersOf(id)}

\* the sellers of the order whose lines sum to an amount that is not 0
PaidSellers(order_id) == {s \in SellersOf(order_id) : Subtotal(order_id, s) # 0}

\* C19 amended: a successful checkout writes exactly one credit ledger entry
\* per distinct seller whose lines sum to an amount other than 0, of that sum,
\* and exactly one debit ledger entry of -total_cents for the buyer when
\* total_cents is not 0; an amount of 0 (a product priced 0.00) writes no
\* entry; no entries per line.
C19_OneEntryPerPaidParty ==
    \A id \in DOMAIN orders :
        /\ CountWithNote(OrderNote(id)) = IF orders[id].total_cents = 0 THEN 0 ELSE 1
        /\ RowsWithNote(OrderNote(id)) =
              IF orders[id].total_cents = 0 THEN {}
              ELSE {TxRow(orders[id].buyer_id, 0 - orders[id].total_cents, OrderNote(id))}
        /\ CountWithNote(SaleNote(id)) = Cardinality(PaidSellers(id))
        /\ RowsWithNote(SaleNote(id)) =
              {TxRow(s, Subtotal(id, s), SaleNote(id)) : s \in PaidSellers(id)}

\* C19 witness: a committed order with two lines sold by the same seller, both
\* with a price that is not 0, and the one credit entry of their sum.
C19_Witness ==
    \E id \in DOMAIN orders : \E a \in LinesOf(id), b \in LinesOf(id) :
        /\ a # b
        /\ order_items[a].seller_id = order_items[b].seller_id
        /\ order_items[a].unit_price_cents > 0 /\ order_items[b].unit_price_cents > 0
        /\ CountWithNote(SaleNote(id)) = 1
        /\ \E r \in RowsWithNote(SaleNote(id)) :
              r.amount_cents = orders[id].total_cents

\* C20: adjust_balance(user, 0, note) is a no-op: the call returns the user's
\* current balance (0 without a balance row) and leaves the balance rows and
\* the ledger as they are; no balance_tx row of amount 0 is ever written.
C20_ZeroAdjustIsNoOp ==
    /\ [](\A r \in BagToSet(balance_tx) : r.amount_cents # 0)
    /\ [][ \A p \in Procs :
             (/\ Free(p) /\ Stepped(p)
              /\ proc'[p].op = "adjust" /\ proc'[p].ab_delta = 0)
             => /\ proc'[p].pc = "done"
                /\ proc'[p].result = "ok"
                /\ proc'[p].new_balance = get_balance(proc'[p].ab_user)
                /\ UNCHANGED <<account_balance, balance_tx, balLock>> ]_vars

\* C20 witness: adjust_balance(3, 0, note) returned 0 for user 3, who has no
\* balance row, and the user still has none.
C20_Witness ==
    \E p \in Procs :
        /\ proc[p].op = "adjust" /\ proc[p].pc = "done" /\ proc[p].result = "ok"
        /\ proc[p].ab_user = 3 /\ proc[p].ab_delta = 0 /\ proc[p].new_balance = 0
        /\ 3 \notin DOMAIN account_balance
        /\ \A r \in BagToSet(balance_tx) : r.user_id # 3

\* C21: every order line carries the catalog price of its product, in
\* hundredths, exact to the cent (ProductsTbl holds the price in hundredths
\* and no operation changes it).
C21_UnitPriceIsCatalogPrice ==
    \A id \in DOMAIN order_items :
        order_items[id].unit_price_cents =
            ProductsTbl[order_items[id].product_id].price

\* mutant of get_order_detail: the total is recomputed from the live catalog
\* price of each line's product
get_order_detail_live(order_id) ==
    LET Live[S \in SUBSET LinesOf(order_id)] ==
            IF S = {} THEN 0
            ELSE LET id == CHOOSE x \in S : TRUE
                 IN  order_items[id].quantity
                       * ProductsTbl[order_items[id].product_id].price
                     + Live[S \ {id}]
    IN  [order_id |-> order_id, total_cents |-> Live[LinesOf(order_id)],
         line_items |-> LinesOf(order_id)]

\* get_order_detail: the header of order order_id and its lines (those whose
\* product is in the catalog: JOIN products); the total reported is the sum of
\* quantity * unit_price_cents over the lines, or the header's total_cents
\* when that sum is 0
get_order_detail(order_id) ==
    LET line_rows == {id \in LinesOf(order_id) :
                         order_items[id].product_id \in DOMAIN ProductsTbl}
        computed_total == SumLines(line_rows)
    IN  [order_id |-> order_id,
         total_cents |-> IF computed_total # 0 THEN computed_total
                         ELSE orders[order_id].total_cents,
         line_items |-> line_rows]

\* C22: a committed order keeps its total_cents, and each of its lines keeps
\* its product_id, seller_id, quantity and unit_price_cents, whatever happens
\* later (inventory edits, further checkouts, fulfilment); the order keeps its
\* lines, and the total get_order_detail reports is the total stored at checkout.
C22_CommittedOrderImmutable ==
    /\ [](\A id \in DOMAIN orders :
             get_order_detail(id).total_cents = orders[id].total_cents)
    /\ [][ \A id \in DOMAIN orders :
             /\ id \in DOMAIN orders'
             /\ orders'[id].total_cents = orders[id].total_cents
             /\ orders'[id].buyer_id = orders[id].buyer_id
             /\ LinesOf(id)' = LinesOf(id)
             /\ \A l \in LinesOf(id) :
                   /\ order_items'[l].product_id = order_items[l].product_id
                   /\ order_items'[l].seller_id = order_items[l].seller_id
                   /\ order_items'[l].quantity = order_items[l].quantity
                   /\ order_items'[l].unit_price_cents = order_items[l].unit_price_cents ]_vars

\* C22 witness: an order line of product 2, sold at 28 while the catalog says
\* 29, has been fulfilled, its seller has removed the inventory entry since,
\* and the order still reports the total stored at checkout.
C22_Witness ==
    \E id \in DOMAIN orders : \E l \in LinesOf(id) :
        /\ order_items[l].product_id = 2
        /\ order_items[l].unit_price_cents # ProductsTbl[2].price
        /\ order_items[l].fulfilled_at # 0
        /\ <<order_items[l].seller_id, 2>> \notin DOMAIN Inventory
        /\ get_order_detail(id).total_cents = orders[id].total_cents

\* the marketplace of InitLedger where user 2 sells product 2, with sellers
\* who edit their inventory and fulfil order lines between the checkouts
InitOrders ==
    /\ InitLedger
    /\ <<2, 2>> \in DOMAIN Inventory

SpecOrders == InitOrders /\ [][NextInv]_vars

\* the messages of the CartErrors _ensure_product_available raises
CartErrors ==
    {"Product does not exist.", "Product is not available for purchase right now."}

InitUnavailable ==
    \E c1 \in {<<Line(1, 1), Line(2, 1)>>, <<Line(2, 2)>>}, h \in {2, 3} :
        /\ account_balance \in InitBalances
        /\ balance_tx = SetToBag({ TxRow(u, account_balance[u], <<"top up", 0>>) :
                            u \in {x \in DOMAIN account_balance : account_balance[x] # 0} })
        /\ Inventory = [k \in {<<3, 1>>, <<h, 2>>} |-> 2]
        /\ CartItem = [u \in Users |->
                          IF u = 1 THEN c1 ELSE IF u = 2 THEN <<Line(1, 1)>> ELSE <<>>]
        /\ ProductsTbl = [pid \in Products |->
              [has_price |-> TRUE, price |-> IF pid = 1 THEN 100 ELSE 29,
               available |-> (pid = 1)]]
        /\ orders = <<>>
        /\ order_items = <<>>
        /\ orders_id_seq = 0
        /\ order_items_id_seq = 0
        /\ balLock = [u \in Users |-> 0]
        /\ proc = [p \in Procs |-> IdleProc]
        /\ nreq = 0
        /\ net = [u \in Users |-> get_balance(u)]
        /\ UsersTbl = Users
        /\ Cart = {1, 2}

SpecUnavailable == InitUnavailable /\ [][Next]_vars

\* C24: no order line is made of a product that is marked unavailable (the
\* flag does not change during the run, so it is the flag at checkout time).
C24_NoLineOfUnavailableProduct ==
    \A id \in DOMAIN order_items : ProductsTbl[order_items[id].product_id].available

(***************************************************************************)
(* Order history: get_purchases_for_user, get_orders_for_seller and the    *)
(* routes that page through them.  An order carries created_at here, a     *)
(* day number >= 1; None stands for a filter or limit that is not given.   *)
(* The name filters (ILIKE patterns) are left out: the requests give none. *)
(***************************************************************************)
MaxOrders == 6

None == 0

Max2(a, b) == IF a >= b THEN a ELSE b
Min2(a, b) == IF a <= b THEN a ELSE b

\* math.ceil(total_orders / per_page) for total_orders >= 0, per_page >= 1
CeilDiv(a, b) == (a + b - 1) \div b

\* value = max(minimum, value); if maximum is not None: min(maximum, value)
parse_positive_int(raw_value, minimum, maximum) ==
    LET value == Max2(minimum, raw_value)
    IN  IF maximum # None THEN Min2(maximum, value) ELSE value

RECURSIVE NewestFirst(_)
\* ORDER BY created_at DESC, order_id DESC
NewestFirst(S) ==
    IF S = {} THEN <<>>
    ELSE LET m == CHOOSE x \in S : \A y \in S :
                     \/ orders[y].created_at < orders[x].created_at
                     \/ orders[y].created_at = orders[x].created_at /\ y <= x
         IN  <<m>> \o NewestFirst(S \ {m})

\* LIMIT :limit OFFSET :offset
LimitOffset(rows, limit, offset) ==
    IF offset >= Len(rows) THEN <<>>
    ELSE SubSeq(rows, offset + 1, Min2(Len(rows), offset + limit))

\* JOIN order_items oi ON oi.order_id = o.id JOIN products p ON p.id = oi.product_id
JoinedLines(order_id) ==
    {l \in LinesOf(order_id) : order_items[l].product_id \in DOMAIN ProductsTbl}

\* get_purchases_for_user(user_id, limit, offset, seller_id=, start_at=, end_before=):
\* o.created_at >= :start_at AND o.created_at < :end_before
get_purchases_for_user(user_id, limit, offset, seller_id, start_at, end_before) ==
    LET limit_val == Max2(1, Min2(50, limit))
        offset_val == Max2(0, offset)
        matching == {id \in DOMAIN orders :
            /\ orders[id].buyer_id = user_id
            /\ start_at # None => orders[id].created_at >= start_at
            /\ end_before # None => orders[id].created_at < end_before
            /\ \E l \in JoinedLines(id) :
                  seller_id # None => order_items[l].seller_id = seller_id}
        total_orders == Cardinality(matching)
    IN  IF total_orders = 0 THEN [orders |-> <<>>, total_orders |-> 0]
        ELSE [orders |-> LimitOffset(NewestFirst(matching), limit_val, offset_val),
              total_orders |-> total_orders]

\* get_orders_for_seller(seller_id, limit, offset, .., start_date, end_date):
\* o.created_at >= :start_date AND o.created_at <= :end_date
get_orders_for_seller(seller_id, limit, offset, start_date, end_date) ==
    LET limit_val == Max2(1, Min2(50, limit))
        offset_val == Max2(0, offset)
        matching == {id \in DOMAIN orders :
            /\ start_date # None => orders[id].created_at >= start_date
            /\ end_date # None => orders[id].created_at <= end_date
            /\ \E l \in JoinedLines(id) : order_items[l].seller_id = seller_id}
        total_orders == Cardinality(matching)
    IN  IF total_orders = 0 THEN [orders |-> <<>>, total_orders |-> 0]
        ELSE [orders |-> LimitOffset(NewestFirst(matching), limit_val, offset_val),
              total_orders |-> total_orders]

\* _fetch_purchases(user_id, start_at=, end_before=, limit=, offset=): the
\* orders of the buyer, ORDER BY o.created_at DESC (no two orders of the
\* marketplaces below have the same created_at, so the order is determined)
fetch_purchases(user_id, start_at, end_before, limit, offset) ==
    LimitOffset(NewestFirst({id \in DOMAIN orders :
                    /\ orders[id].buyer_id = user_id
                    /\ start_at # None => orders[id].created_at >= start_at
                    /\ end_before # None => orders[id].created_at < end_before}),
                limit, offset)

\* _count_purchases(user_id, start_at=, end_before=)
count_purchases(user_id, start_at, end_before) ==
    Cardinality({id \in DOMAIN orders :
                    /\ orders[id].buyer_id = user_id
                    /\ start_at # None => orders[id].created_at >= start_at
                    /\ end_before # None => orders[id].created_at < end_before})

\* the record of a history request: the call, its user, the query string it
\* came with and the response
HistoryCall(p, op, u, request, response) ==
    /\ Serves(p)
    /\ nreq < MaxRequests
    /\ nreq' = nreq + 1
    /\ proc' = [proc EXCEPT ![p] = [request |-> request] @@ CartCall(op, u, response)]
    /\ UNCHANGED <<dbVars, orders_id_seq, order_items_id_seq, balLock, net>>

\* end_before = end_at + timedelta(days=1) if end_at else None
EndBefore(end_at) == IF end_at # None THEN end_at + 1 ELSE None

\* the purchase list of account.py from the parsed page and per_page on: the
\* query, total_pages, and the second query for a page beyond the last one
PurchasesPage(u, page, per_page, start_at, end_before) ==
    LET offset == (page - 1) * per_page
        result == get_purchases_for_user(u, per_page, offset, None, start_at, end_before)
        total_orders == result.total_orders
        total_pages == IF total_orders # 0
                       THEN Max2(1, CeilDiv(total_orders, per_page)) ELSE 1
        beyond == total_orders # 0 /\ offset >= total_orders
        last_page == IF total_orders = 0 THEN 1
                     ELSE IF beyond THEN total_pages ELSE page
        last_result == IF beyond
                       THEN get_purchases_for_user(u, per_page, (last_page - 1) * per_page,
                                                   None, start_at, end_before)
                       ELSE result
    IN  [page |-> last_page, per_page |-> per_page, total_orders |-> total_orders,
         total_pages |-> total_pages, orders |-> last_result.orders]

\* GET /account/purchases?page=&per_page=&start=&end= by the logged-in user u
account_purchases(p, u, page, per_page, start, end) ==
    HistoryCall(p, "account_purchases", u,
        [page |-> page, per_page |-> per_page, start |-> start, end |-> end],
        PurchasesPage(u, parse_positive_int(page, 1, None),
                      parse_positive_int(per_page, 5, 25), start, EndBefore(end)))

\* GET /api/users/<u>/purchases of account.py, requested by user u
api_user_purchases(p, u, page, per_page, start, end) ==
    HistoryCall(p, "api_user_purchases", u,
        [page |-> page, per_page |-> per_page, start |-> start, end |-> end],
        PurchasesPage(u, parse_positive_int(page, 1, None),
                      parse_positive_int(per_page, 1, 50), start, EndBefore(end)))

\* api_user_purchases of users/routes.py: _fetch_purchases and
\* _count_purchases with the offset of the page asked for
users_api_user_purchases(p, u, raw_page, raw_per_page, start, end) ==
    LET page == Max2(1, raw_page)
        per_page == Max2(1, Min2(50, raw_per_page))
        offset == (page - 1) * per_page
    IN  HistoryCall(p, "users_api_user_purchases", u,
            [page |-> raw_page, per_page |-> raw_per_page, start |-> start, end |-> end],
            [page |-> page, per_page |-> per_page,
             total |-> count_purchases(u, start, EndBefore(end)),
             items |-> fetch_purchases(u, start, EndBefore(end), per_page, offset)])

\* GET /users/<u>/orders?page=&per_page=&start=&end=: the seller's orders
view_orders(p, u, page, per_page, start_date, end_date) ==
    LET offset == (page - 1) * per_page
        res == get_orders_for_seller(u, per_page, offset, start_date, end_date)
        total_pages == IF res.total_orders > 0
                       THEN CeilDiv(res.total_orders, per_page) ELSE 1
    IN  HistoryCall(p, "view_orders", u,
            [page |-> page, per_page |-> per_page, start |-> start_date, end |-> end_date],
            [orders |-> res.orders, total_orders |-> res.total_orders, page |-> page,
             per_page |-> per_page, total_pages |-> Min2(total_pages, 10)])

\* the values of page and per_page in the query strings, and the date filters
\* (start, end), None when the request has none
RawPages == 0..3
RawPerPages == {2, 5}
Windows == {<<None, None>>, <<2, 3>>}

\* up to MaxOrders orders, one a day: order 2 is user 2's, the others are user
\* 1's; user 3 sold their lines but for the line of order 3, which user 2
\* sold; order 1 has a second line
InitHistory ==
    \E N \in 0..MaxOrders :
        /\ orders = [id \in 1..N |->
              [buyer_id |-> IF id = 2 THEN 2 ELSE 1, total_cents |-> 100,
               fulfilled |-> FALSE, created_at |-> id]]
        /\ order_items = [l \in 1..(IF N = 0 THEN 0 ELSE N + 1) |->
              [order_id |-> IF l = N + 1 THEN 1 ELSE l, product_id |-> 1,
               seller_id |-> IF l = 3 THEN 2 ELSE 3, quantity |-> 1,
               unit_price_cents |-> IF l = 1 \/ l = N + 1 THEN 50 ELSE 100,
               fulfilled_at |-> 0]]
        /\ orders_id_seq = N
        /\ order_items_id_seq = Len(order_items)
        /\ ProductsTbl = [pid \in Products |->
              [has_price |-> TRUE, price |-> 100, available |-> TRUE]]
        /\ account_balance = <<>>
        /\ balance_tx = EmptyBag
        /\ Inventory = <<>>
        /\ CartItem = [u \in Users |-> <<>>]
        /\ Cart = {}
        /\ balLock = [u \in Users |-> 0]
        /\ proc = [p \in Procs |-> IdleProc]
        /\ nreq = 0
        /\ net = [u \in Users |-> 0]
        /\ UsersTbl = Users

NextHistory ==
    \/ \E p \in Procs, u \in {1, 2}, page \in RawPages, per_page \in RawPerPages,
          w \in Windows : account_purchases(p, u, page, per_page, w[1], w[2])
    \/ \E p \in Procs, u \in {1, 2}, page \in RawPages, per_page \in RawPerPages,
          w \in Windows : api_user_purchases(p, u, page, per_page, w[1], w[2])
    \/ \E p \in Procs, u \in {1, 2}, page \in RawPages, per_page \in RawPerPages,
          w \in Windows : users_api_user_purchases(p, u, page, per_page, w[1], w[2])
    \/ \E p \in Procs, u \in {2, 3}, page \in RawPages, per_page \in RawPerPages,
          w \in Windows : view_orders(p, u, page, per_page, w[1], w[2])

SpecHistory == InitHistory /\ [][NextHistory]_vars

\* the orders a history response lists
ListedOrders(r) == IF "items" \in DOMAIN r THEN r.items ELSE r.orders

\* the orders of buyer u placed on the days start .. end of a request
OrdersOfBuyer(u, start, end) ==
    {id \in DOMAIN orders :
        /\ orders[id].buyer_id = u
        /\ start # None => orders[id].created_at >= start
        /\ end # None => orders[id].created_at <= end}

\* C25: a purchase-history request whose page lies beyond the last page is
\* clamped: when the buyer has N > 0 matching orders and the offset asked for
\* is >= N, the response reports page = ceil(N / per_page) and lists the
\* orders of that last page.
C25_BeyondLastPageClamped ==
    \A p \in Procs :
        proc[p].op \in {"account_purchases", "api_user_purchases",
                        "users_api_user_purchases"}
        => LET r == proc[p].result
               q == proc[p].request
               mine == OrdersOfBuyer(proc[p].user, q.start, q.end)
               N == Cardinality(mine)
               last == CeilDiv(N, r.per_page)
           IN  (N > 0 /\ (Max2(1, q.page) - 1) * r.per_page >= N)
               => /\ r.page = last
                  /\ ListedOrders(r) # <<>>
                  /\ ListedOrders(r) =
                        LimitOffset(NewestFirst(mine), r.per_page, (last - 1) * r.per_page)

\* the orders with a line sold by seller s
OrdersOfSeller(s) ==
    {id \in DOMAIN orders : \E l \in LinesOf(id) : order_items[l].seller_id = s}

\* C26: the date filter of the order queries is half-open: a request that
\* hands get_purchases_for_user (buyer) or get_orders_for_seller (seller) the
\* bounds start and end gets the orders with start <= created_at < end, so an
\* order made at start is counted and listed and an order made at end is not.
C26_DateFilterHalfOpen ==
    \A p \in Procs :
        (/\ proc[p].op \in {"account_purchases", "api_user_purchases", "view_orders"}
         /\ proc[p].request.start # None /\ proc[p].request.end # None)
        => LET r == proc[p].result
               q == proc[p].request
               start == q.start
               end == IF proc[p].op = "view_orders" THEN q.end ELSE EndBefore(q.end)
               scope == IF proc[p].op = "view_orders" THEN OrdersOfSeller(proc[p].user)
                        ELSE {id \in DOMAIN orders : orders[id].buyer_id = proc[p].user}
               inside == {id \in scope : /\ start <= orders[id].created_at
                                         /\ orders[id].created_at < end}
           IN  /\ r.total_orders = Cardinality(inside)
               /\ \A k \in 1..Len(r.orders) : r.orders[k] \in inside

\* no checkout transaction holds the lock of the Inventory row k (an UPDATE or
\* DELETE of a row another transaction has updated waits for its end)
InventoryRowFree(k) == \A q \in Procs : k \notin LockedInventory(proc[q])

\* checkouts, and sellers who set the quantity of an inventory entry or
\* remove it while a checkout is under way
NextRace ==
    \/ \E p \in Procs, u \in Users : StartCheckout(p, u)
    \/ \E p \in Procs : CO_ReadCart(p)
    \/ \E p \in Procs : CO_SelectSeller(p)
    \/ \E p \in Procs : CO_CheckBalance(p)
    \/ \E p \in Procs : CO_Begin(p)
    \/ \E p \in Procs : AB_Lock(p)
    \/ \E p \in Procs : AB_Write(p)
    \/ \E p \in Procs : CO_Commit(p)
    \/ \E p \in Procs, u \in Users, pid \in Products, quantity \in InvQuantities :
          InventoryRowFree(<<u, pid>>) /\ update_product_quantity(p, u, pid, quantity)
    \/ \E p \in Procs, u \in Users, pid \in Products :
          InventoryRowFree(<<u, pid>>) /\ remove_product_from_inventory(p, u, pid)

SpecRace == InitLedger /\ [][NextRace]_vars

\* C27: the commit of a checkout takes the units of every line of the order
\* from an Inventory row that exists: the row of the chosen seller and the
\* product is there and loses exactly the quantity ordered from it.
C27_UnitsDeductedFromEntry ==
    [][ \A p \in Procs :
          (/\ proc[p].op = "checkout" /\ proc[p].pc = "clear_cart"
           /\ proc'[p].pc = "done" /\ proc'[p].result = "ok")
          => \A k \in 1..Len(proc[p].items_to_order) :
                LET item == proc[p].items_to_order[k]
                    row == <<item.seller_id, item.product_id>>
                IN  /\ row \in DOMAIN Inventory
                    /\ row \in DOMAIN Inventory'
                    /\ Inventory'[row] = Inventory[row]
                          - OrderedQty(proc[p].items_to_order,
                                       Len(proc[p].items_to_order), row) ]_vars

\* checkouts, and buyers who change their cart while a checkout is under way
NextCartRace ==
    \/ \E p \in Procs, u \in Users : StartCheckout(p, u)
    \/ \E p \in Procs : CO_ReadCart(p)
    \/ \E p \in Procs : CO_SelectSeller(p)
    \/ \E p \in Procs : CO_CheckBalance(p)
    \/ \E p \in Procs : CO_Begin(p)
    \/ \E p \in Procs : AB_Lock(p)
    \/ \E p \in Procs : AB_Write(p)
    \/ \E p \in Procs : CO_Commit(p)
    \/ \E p \in Procs, u \in Users, pid \in CartProductIds, qty \in CartQuantities :
          add_item_to_cart(p, u, pid, qty)
    \/ \E p \in Procs, u \in Users, pid \in CartProductIds, qty \in CartQuantities :
          set_item_quantity(p, u, pid, qty)

SpecCartRace == InitLedger /\ [][NextCartRace]_vars

\* C28: every cart row the delete of a successful checkout removes is a line
\* of the order it commits, with the same product and quantity.
C28_DeletedRowsAreOrdered ==
    [][ \A p \in Procs :
          (/\ proc[p].op = "checkout" /\ proc[p].pc = "clear_cart"
           /\ proc'[p].pc = "done" /\ proc'[p].result = "ok")
          => \A k \in 1..Len(CartItem[proc[p].user]) :
                /\ CartItem'[proc[p].user] = <<>>
                /\ \E l \in LinesOf(proc[p].order_id)' :
                      /\ order_items'[l].product_id = CartItem[proc[p].user][k].product_id
                      /\ order_items'[l].quantity = CartItem[proc[p].user][k].quantity ]_vars

\* C29: a cart becomes at most one order: no cart is filled again during the
\* run, so no buyer has two orders, however often the checkout is submitted.
C29_OneOrderPerCart ==
    \A a, b \in DOMAIN orders : orders[a].buyer_id = orders[b].buyer_id => a = b

\* C30: mark_line_item_as_fulfilled(seller_id, order_id, line_item_id) sets
\* fulfilled_at on the one line whose id, order_id and seller_id all match and
\* on no other; when no line matches all three, no line changes.  The other
\* fields of every line and all other state stay as they are.
C30_FulfilOnlyTheMatchingLine ==
    [][ \A seller_id \in Users, order_id \in DOMAIN orders,
           line_item_id \in DOMAIN order_items, t \in 1..MaxTime :
          (/\ order_items' # order_items
           /\ mark_line_item_as_fulfilled(seller_id, order_id, line_item_id, t))
          => /\ DOMAIN order_items' = DOMAIN order_items
             /\ \A id \in DOMAIN order_items :
                   IF /\ id = line_item_id
                      /\ order_items[id].seller_id = seller_id
                      /\ order_items[id].order_id = order_id
                   THEN order_items'[id] = [order_items[id] EXCEPT !.fulfilled_at = t]
                   ELSE order_items'[id] = order_items[id]
             /\ UNCHANGED <<account_balance, balance_tx, Inventory, CartItem,
                            ProductsTbl, orders, proc, UsersTbl, Cart>> ]_vars

\* C30 witness: of the two lines of one order, sold by different sellers, one
\* has been marked as fulfilled and the other has not.
C30_Witness ==
    \E a, b \in DOMAIN order_items :
        /\ order_items[a].order_id = order_items[b].order_id
        /\ order_items[a].seller_id # order_items[b].seller_id
        /\ order_items[a].fulfilled_at # 0
        /\ order_items[b].fulfilled_at = 0

====
